---- MODULE Spec2Model ----
(***************************************************************************)
(* Lift plugin (src/src/plugin.ts): construct instantiation, the two-phase *)
(* deferred reference protocol, permission aggregation and the lifecycle   *)
(* hooks, as a state machine; and the plugin before the constructs         *)
(* (src/unnamed/part_000): setup, the template merge and the permissions.  *)
(*                                                                         *)
(* JavaScript values are tagged records ("nodes"):                         *)
(*   [t |-> "undefined"]                       undefined                   *)
(*   [t |-> "str", fr |-> <<fragment, ...>>]   a string, as its literal    *)
(*                                             and token fragments         *)
(*   [t |-> "arr", xs |-> <<node, ...>>]       an array                    *)
(*   [t |-> "obj", ks |-> keys, vs |-> nodes]  a plain object, keys in     *)
(*                                             insertion order             *)
(*   [t |-> "lazy", v |-> node]                a deferred value (CDK       *)
(*                                             IResolvable) producing v    *)
(* An address "a.b.c" is the sequence of its "."-separated segments.       *)
(***************************************************************************)
EXTENDS Integers, Sequences, FiniteSets, TLC

VARIABLES
    plugin,      \* "none" | "ready" | "failed": outcome of new LiftPlugin(...)
    decls,       \* configurationInput.constructs, <<[id, type]>> in file order
    constructs,  \* this.constructs: [def |-> FALSE] or [def |-> TRUE, ent |-> <<[id, type]>>]
    service,     \* serverless.service: provider, functions, custom, resources, layers, outputs
    lazies,      \* the CDK token map: lazies[n] is the address token n was made for
    commands,    \* the "<id>:<command>" commands and hooks registered by the constructor
    host,        \* host run: "boot" | "run" | "aborted"
    result,      \* outcome of the last operation
    schema       \* CONSTRUCTS_DEFINITION.patternProperties[CONSTRUCT_ID_PATTERN].allOf

vars == <<plugin, decls, constructs, service, lazies, commands, host, result, schema>>

-----------------------------------------------------------------------------
(* Bounds of the model *)

MaxDecls == 2
MaxTokens == 1
\* resolveReference calls in the runs that only resolve variables
MaxCalls == 2
\* Plugin instances constructed in one process
MaxPlugins == 2

\* appendPermissions is not invoked once the role statement list is this long
MaxStatements == MaxDecls

-----------------------------------------------------------------------------
(* Values *)

Undefined == [t |-> "undefined"]
Lit(s) == [k |-> "lit", s |-> s]
Tok(n) == [k |-> "tok", n |-> n]
Str(fr) == [t |-> "str", fr |-> fr]
S(s) == Str(<<Lit(s)>>)
Arr(xs) == [t |-> "arr", xs |-> xs]
Obj(ks, vs) == [t |-> "obj", ks |-> ks, vs |-> vs]
LazyAny(v) == [t |-> "lazy", v |-> v]

Range(s) == {s[i] : i \in 1..Len(s)}

IndexOfKey(ks, k) == IF k \in Range(ks) THEN CHOOSE i \in 1..Len(ks) : ks[i] = k ELSE 0

\* o[k], undefined when o has no own key k
Get(o, k) == IF o.t = "obj" /\ k \in Range(o.ks) THEN o.vs[IndexOfKey(o.ks, k)] ELSE Undefined

\* o[k] = v: an existing key keeps its position, a new key is added last
Set(o, k, v) ==
    IF k \in Range(o.ks)
    THEN Obj(o.ks, [o.vs EXCEPT ![IndexOfKey(o.ks, k)] = v])
    ELSE Obj(Append(o.ks, k), Append(o.vs, v))

-----------------------------------------------------------------------------
(* Identifiers and inputs *)

ConstructIds == {"assets", "7", "10"}

\* The value of an id that is a canonical array index ("7", "10"), -1 otherwise
ArrayIndex(id) == CASE id = "7" -> 7 [] id = "10" -> 10 [] OTHER -> -1

\* The types a declaration of each id is given in the inputs; "bogus" is not registered
DeclTypes(id) ==
    CASE id = "assets" -> {"storage", "queue"}
      [] id = "7" -> {"storage", "static-website", "bogus"}
      [] OTHER -> {"queue", "static-website"}

Declarations == {d \in [id : ConstructIds, type : {"storage", "queue", "static-website", "bogus"}] :
                    d.type \in DeclTypes(d.id)}

Addresses == {<<"assets", "bucketArn">>, <<"assets", "queueArn">>, <<"assets">>,
              <<"assets", "bucketArn", "extra">>}

SectionNames == <<"provider", "functions", "custom", "resources", "layers", "outputs">>

\* The section in which the configuration holds ${construct:...} expressions
EmbedSections == {"outputs"}

NoId == "-"

RECURSIVE SeqsUpTo(_, _)
SeqsUpTo(T, n) ==
    IF n = 0 THEN {<<>>}
    ELSE LET shorter == SeqsUpTo(T, n - 1)
         IN shorter \cup {Append(s, x) : s \in shorter, x \in T}

Ids(ds) == [i \in 1..Len(ds) |-> ds[i].id]

DeclSets ==
    {ds \in SeqsUpTo(Declarations, MaxDecls) :
        \A i, j \in 1..Len(ds) : i # j => ds[i].id # ds[j].id}

-----------------------------------------------------------------------------
(* JavaScript object enumeration *)

\* Object.entries of an object whose own keys were inserted in the order of
\* ents: canonical array indices first, ascending, then the other keys in
\* insertion order.
ObjectEntries(ents) ==
    SortSeq(SelectSeq(ents, LAMBDA e : ArrayIndex(e.id) >= 0),
            LAMBDA a, b : ArrayIndex(a.id) < ArrayIndex(b.id))
        \o SelectSeq(ents, LAMBDA e : ArrayIndex(e.id) < 0)

\* keys.join(", ")
RECURSIVE Join(_, _)
Join(keys, sep) ==
    IF keys = <<>> THEN <<>>
    ELSE IF Len(keys) = 1 THEN keys
    ELSE <<Head(keys), sep>> \o Join(Tail(keys), sep)

\* address.split(".", limit): at most limit segments, the rest is dropped
Split(address, limit) ==
    SubSeq(address, 1, IF Len(address) < limit THEN Len(address) ELSE limit)

-----------------------------------------------------------------------------
(* Outcomes of a step: the store it leaves, the error it throws *)

Ok(st) == [st |-> st, err |-> "none", msg |-> <<>>]
Fail(st, err, msg) == [st |-> st, err |-> err, msg |-> msg]

Val(v) == [v |-> v, err |-> "none", msg |-> <<>>]
Thrown(err, msg) == [v |-> Undefined, err |-> err, msg |-> msg]

-----------------------------------------------------------------------------
(* Construct classes *)

\* providers[0].registerConstructs(Storage, Queue, Webhook, StaticWebsite)
getAllConstructClasses == <<"storage", "queue", "webhook", "static-website">>

\* The allOf list of the module's CONSTRUCTS_DEFINITION: the base fragment
CONSTRUCTS_DEFINITION ==
    <<[type |-> "object", properties |-> [type |-> [type |-> "string"]], required |-> <<"type">>]>>

\* Construct.schema of a construct class
classSchema(type) == [type |-> "object", of |-> type]

\* merge(configSchema, {properties: {type: {const: constructName}}})
defineConstructSchema(constructName, configSchema) ==
    [type |-> configSchema.type, of |-> configSchema.of,
     properties |-> [type |-> [const |-> constructName]]]

\* registerConstructsSchema(): allOf.push({oneOf: ...})
registerConstructsSchema(allOf) ==
    Append(allOf,
           [oneOf |-> [i \in 1..Len(getAllConstructClasses) |->
                         defineConstructSchema(getAllConstructClasses[i],
                                               classSchema(getAllConstructClasses[i]))]])

getConstructClassUnchecked(constructType) ==
    [type |-> constructType, err |-> "none", msg |-> <<>>]

getConstructClass(constructType) ==
    IF constructType \in Range(getAllConstructClasses)
    THEN [type |-> constructType, err |-> "none", msg |-> <<>>]
    ELSE [type |-> constructType, err |-> "UnknownConstructType",
          msg |-> <<"Unknown construct type ", constructType>>]

\* AwsProvider.create(type, id)
create(type, id) ==
    IF type \in Range(getAllConstructClasses)
    THEN [inst |-> [id |-> id, type |-> type], err |-> "none", msg |-> <<>>]
    ELSE [inst |-> [id |-> id, type |-> type], err |-> "UnknownConstructType",
          msg |-> <<"The construct '", id, "' has an unknown type '", type, "'">>]

\* provider.getCloudFormationReference(value): the resolved intrinsic
getCloudFormationReference(id, attribute) == Obj(<<"Fn::GetAtt">>, <<Arr(<<S(id), S(attribute)>>)>>)

referenceBucketArn(id) == getCloudFormationReference(id, "Arn")

referenceBucketName(id) == Obj(<<"Ref">>, <<S(id)>>)

StorageReferences(id) ==
    Obj(<<"bucketArn", "bucketName">>, <<referenceBucketArn(id), referenceBucketName(id)>>)

PolicyStatement(actions, resources) ==
    Obj(<<"Effect", "Action", "Resource">>, <<S("Allow"), Arr(actions), Arr(resources)>>)

\* A statement on the bucket's name instead of its ARN
StoragePermissionsOnName(id) ==
    <<PolicyStatement(
        <<S("s3:PutObject"), S("s3:GetObject"), S("s3:DeleteObject"), S("s3:ListBucket")>>,
        <<referenceBucketName(id),
          Obj(<<"Fn::Join">>, <<Arr(<<S("/"), Arr(<<referenceBucketName(id), S("*")>>)>>)>>)>>)>>

StoragePermissions(id) ==
    <<PolicyStatement(
        <<S("s3:PutObject"), S("s3:GetObject"), S("s3:DeleteObject"), S("s3:ListBucket")>>,
        <<referenceBucketArn(id),
          Obj(<<"Fn::Join">>, <<Arr(<<S("/"), Arr(<<referenceBucketArn(id), S("*")>>)>>)>>)>>)>>

\* A queue exposes its ARN as a nested deferred value
QueueReferences(id) == Obj(<<"queueArn">>, <<LazyAny(getCloudFormationReference(id, "Arn"))>>)

QueuePermissions(id) ==
    <<PolicyStatement(<<S("sqs:SendMessage")>>, <<LazyAny(getCloudFormationReference(id, "Arn"))>>)>>

\* construct.references()
references(construct) ==
    CASE construct.type = "storage" -> StorageReferences(construct.id)
      [] construct.type = "queue" -> QueueReferences(construct.id)
      [] OTHER -> Obj(<<>>, <<>>)

\* construct.permissions !== undefined
hasPermissions(construct) == construct.type \in {"storage", "queue"}

\* construct.permissions()
permissions(construct) ==
    CASE construct.type = "storage" -> StoragePermissions(construct.id)
      [] construct.type = "queue" -> QueuePermissions(construct.id)
      [] OTHER -> <<>>

\* Object.keys(construct.outputs())
outputs(construct) ==
    CASE construct.type = "storage" -> <<"bucketName">>
      [] construct.type = "queue" -> <<"queueUrl">>
      [] OTHER -> <<>>

\* construct.postDeploy !== undefined, construct.preRemove !== undefined
hasPostDeploy(construct) == construct.type = "static-website"
hasPreRemove(construct) == construct.type = "static-website"

\* Object.keys(constructClass.commands()), <<>> when the class has no commands
classCommands(type) == IF type = "static-website" THEN <<"upload">> ELSE <<>>

\* constructClass.commands()[command]: the usage and the options of a command
commandDefinition(type, command) ==
    [usage |-> <<"usage of ", type, " ", command>>, options |-> Undefined]

-----------------------------------------------------------------------------
(* The plugin's methods, as functions of the store                          *)
(*   st = [constructs |-> this.constructs, service |-> serverless.service]  *)

NotInitializedMsg == <<"Constructs are not initialized: this should not happen">>
AlreadyInitializedMsg == <<"Constructs are already initialized: this should not happen">>

\* The for loop of loadConstructs: rest are the entries still to create,
\* acc is this.constructs so far; a throwing create leaves acc as it is.
RECURSIVE createEach(_, _)
createEach(rest, acc) ==
    IF rest = <<>> THEN [ent |-> acc, err |-> "none", msg |-> <<>>]
    ELSE LET c == create(Head(rest).type, Head(rest).id)
         IN IF c.err # "none"
            THEN [ent |-> acc, err |-> c.err, msg |-> c.msg]
            ELSE createEach(Tail(rest), Append(acc, c.inst))

loadConstructsTwice(st) ==
    LET r == createEach(ObjectEntries(decls), <<>>)
    IN [st |-> [st EXCEPT !.constructs = [def |-> TRUE, ent |-> r.ent]],
        err |-> r.err, msg |-> r.msg]

loadConstructs(st) ==
    IF st.constructs.def
    THEN Fail(st, "DoubleInitialization", AlreadyInitializedMsg)
    ELSE LET r == createEach(ObjectEntries(decls), <<>>)
         IN [st |-> [st EXCEPT !.constructs = [def |-> TRUE, ent |-> r.ent]],
             err |-> r.err, msg |-> r.msg]

getConstructsOrEmpty(cs) ==
    [ent |-> IF cs.def THEN cs.ent ELSE <<>>, err |-> "none", msg |-> <<>>]

\* getConstructs(): throws when this.constructs is undefined
getConstructs(cs) ==
    IF ~cs.def
    THEN [ent |-> <<>>, err |-> "NotInitialized", msg |-> NotInitializedMsg]
    ELSE [ent |-> cs.ent, err |-> "none", msg |-> <<>>]

\* The produce callback of the Lazy made by resolveReference({address})
produce(address, cs) ==
    LET got == getConstructs(cs)
        parts == Split(address, 2)
        id == parts[1]
        \* a missing second part is undefined: it prints as, and is looked up as, "undefined"
        property == IF Len(parts) >= 2 THEN parts[2] ELSE "undefined"
    IN  IF got.err # "none" THEN Thrown(got.err, got.msg)
        ELSE IF id \notin Range(Ids(got.ent))
        THEN Thrown("UnknownConstructReference",
                    <<"No construct named '", id, "' was found, the ${construct:", id, ".",
                      property, "} variable is invalid.">>)
        ELSE LET construct == CHOOSE c \in Range(got.ent) : c.id = id
                 properties == references(construct)
             IN IF property \notin Range(properties.ks)
                THEN Thrown("UnknownReferenceProperty",
                            <<"${construct:", id, ".", property,
                              "} does not exist. Properties available on ${construct:", id,
                              "} are: ">> \o Join(properties.ks, ", ") \o <<".">>)
                ELSE Val(Get(properties, property))

\* What a resolved value contributes to a concatenated string (StringConcat)
ToFragments(v) == IF v.t = "str" THEN v.fr ELSE <<Lit("[object Object]")>>

RECURSIVE FlattenSeq(_)
FlattenSeq(ss) == IF ss = <<>> THEN <<>> ELSE Head(ss) \o FlattenSeq(Tail(ss))

\* Tokenization.resolve(input, {resolver: DefaultTokenResolver(StringConcat)}):
\* a deep copy of x in which every token and deferred value is replaced by
\* its forced value, itself resolved; the first throwing produce aborts.
RECURSIVE resolve(_, _, _)
RECURSIVE resolveAll(_, _, _, _)
\* The elements of xs resolved from left to right, after those in acc
resolveAll(xs, cs, lz, acc) ==
    IF xs = <<>> THEN [vs |-> acc, err |-> "none", msg |-> <<>>]
    ELSE LET r == resolve(Head(xs), cs, lz)
         IN IF r.err # "none" THEN [vs |-> acc, err |-> r.err, msg |-> r.msg]
            ELSE resolveAll(Tail(xs), cs, lz, Append(acc, r.v))

\* A fragment of a string as a node: a literal, or the token's string
FragmentNode(f) == IF f.k = "lit" THEN S(f.s) ELSE Str(<<f>>)

resolveOnce(x, cs, lz) ==
    IF x.t = "str" /\ Len(x.fr) = 1 /\ x.fr[1].k = "tok"
    THEN produce(lz[x.fr[1].n], cs)
    ELSE IF x.t = "lazy" THEN Val(x.v) ELSE Val(x)

resolve(x, cs, lz) ==
    CASE x.t = "lazy" -> resolve(x.v, cs, lz)
      [] x.t = "arr" ->
            LET r == resolveAll(x.xs, cs, lz, <<>>)
            IN IF r.err # "none" THEN Thrown(r.err, r.msg) ELSE Val(Arr(r.vs))
      [] x.t = "obj" ->
            LET r == resolveAll(x.vs, cs, lz, <<>>)
            IN IF r.err # "none" THEN Thrown(r.err, r.msg) ELSE Val(Obj(x.ks, r.vs))
      [] x.t = "str" /\ Len(x.fr) = 1 /\ x.fr[1].k = "lit" -> Val(x)
      [] x.t = "str" /\ Len(x.fr) = 1 /\ x.fr[1].k = "tok" ->
            LET p == produce(lz[x.fr[1].n], cs)
            IN IF p.err # "none" THEN p ELSE resolve(p.v, cs, lz)
      [] x.t = "str" ->
            LET r == resolveAll([i \in 1..Len(x.fr) |-> FragmentNode(x.fr[i])], cs, lz, <<>>)
            IN IF r.err # "none" THEN Thrown(r.err, r.msg)
               ELSE Val(Str(FlattenSeq([i \in 1..Len(r.vs) |-> ToFragments(r.vs[i])])))
      [] OTHER -> Val(x)

resolveTokensDefaulting(input, cs, lz) ==
    IF input = Undefined THEN Val(Obj(<<>>, <<>>)) ELSE resolve(input, cs, lz)

\* resolveTokens(input) of resolveLazyVariables
resolveTokens(input, cs, lz) ==
    IF input = Undefined THEN Val(input) ELSE resolve(input, cs, lz)

\* The six assignments of resolveLazyVariables, from the one for names[1] on
RECURSIVE resolveSections(_, _, _)
resolveSections(names, st, lz) ==
    IF names = <<>> THEN Ok(st)
    ELSE LET r == resolveTokens(st.service[Head(names)], st.constructs, lz)
         IN IF r.err # "none" THEN Fail(st, r.err, r.msg)
            ELSE resolveSections(Tail(names),
                                 [st EXCEPT !.service[Head(names)] = r.v], lz)

resolveLazyVariablesProviderOnly(st, lz) == resolveSections(<<"provider">>, st, lz)

resolveLazyVariables(st, lz) == resolveSections(SectionNames, st, lz)

\* Object.entries(constructs).map(permissions).flat(1)
collectStatements(ents) ==
    FlattenSeq([i \in 1..Len(ents) |->
                  IF hasPermissions(ents[i]) THEN permissions(ents[i]) ELSE <<>>])

appendPermissionsReplacing(st) ==
    LET got == getConstructs(st.constructs)
        statements == collectStatements(ObjectEntries(got.ent))
    IN  IF got.err # "none" THEN Fail(st, got.err, got.msg)
        ELSE IF Len(statements) = 0 THEN Ok(st)
        ELSE Ok([st EXCEPT !.service.provider =
                    Set(st.service.provider, "iamRoleStatements", Arr(statements))])

appendPermissions(st) ==
    LET got == getConstructs(st.constructs)
        statements == collectStatements(ObjectEntries(got.ent))
        provider == st.service.provider
        existing == IF Get(provider, "iamRoleStatements") = Undefined
                    THEN <<>> ELSE Get(provider, "iamRoleStatements").xs
    IN  IF got.err # "none" THEN Fail(st, got.err, got.msg)
        ELSE IF Len(statements) = 0 THEN Ok(st)
        ELSE Ok([st EXCEPT !.service.provider =
                    Set(provider, "iamRoleStatements", Arr(existing \o statements))])

-----------------------------------------------------------------------------
(* The initialize hook *)

initializeStepsPermissionsLast == <<"loadConstructs", "resolveLazyVariables", "appendPermissions">>

\* initialize: () => { loadConstructs(); appendPermissions(); resolveLazyVariables(); }
initializeSteps == <<"loadConstructs", "appendPermissions", "resolveLazyVariables">>

step(name, st, lz) ==
    CASE name = "loadConstructs" -> loadConstructs(st)
      [] name = "appendPermissions" -> appendPermissions(st)
      [] name = "resolveLazyVariables" -> resolveLazyVariables(st, lz)

\* The statements of a handler in order; trace lists the ones that were
\* started, and a throwing one ends the handler.
RECURSIVE runSteps(_, _, _, _)
runSteps(names, st, lz, trace) ==
    IF names = <<>> THEN [st |-> st, err |-> "none", msg |-> <<>>, trace |-> trace]
    ELSE LET r == step(Head(names), st, lz)
         IN IF r.err # "none"
            THEN [st |-> r.st, err |-> r.err, msg |-> r.msg, trace |-> Append(trace, Head(names))]
            ELSE runSteps(Tail(names), r.st, lz, Append(trace, Head(names)))

initialize(st, lz) == runSteps(initializeSteps, st, lz, <<>>)

-----------------------------------------------------------------------------
(* The other hooks *)

\* A loop that an undefined output ends: nothing is printed after it
infoLinesStopping(ents, missing) ==
    LET upto == IF missing \in Range(Ids(ents)) THEN IndexOfKey(Ids(ents), missing) ELSE Len(ents)
    IN FlattenSeq([i \in 1..upto |->
        IF Len(outputs(ents[i])) > 0
        THEN <<<<ents[i].id>>>> \o
             (IF ents[i].id = missing THEN <<>>
              ELSE [j \in 1..Len(outputs(ents[i])) |-> <<ents[i].id, outputs(ents[i])[j]>>])
        ELSE <<>>])

\* The lines info prints: <<id>> for a header, <<id, name>> for an output;
\* missing is the construct whose output resolvers return undefined.
infoLines(ents, missing) ==
    FlattenSeq([i \in 1..Len(ents) |->
        IF Len(outputs(ents[i])) > 0
        THEN <<<<ents[i].id>>>> \o
             (IF ents[i].id = missing THEN <<>>
              ELSE [j \in 1..Len(outputs(ents[i])) |-> <<ents[i].id, outputs(ents[i])[j]>>])
        ELSE <<>>])

\* A loop that calls every hook and reports a failure only at the end
callAll(hooked, bad) ==
    [called |-> Ids(hooked),
     err |-> IF bad \in Range(Ids(hooked)) THEN "HookFailure" ELSE "none",
     msg |-> IF bad \in Range(Ids(hooked)) THEN <<"hook of ", bad, " failed">> ELSE <<>>]

\* The hooks a sequential, fail-fast loop over hooked calls when the hook of
\* construct bad throws
callInOrder(hooked, bad) ==
    IF bad \in Range(Ids(hooked))
    THEN [called |-> SubSeq(Ids(hooked), 1, IndexOfKey(Ids(hooked), bad)), err |-> "HookFailure",
          msg |-> <<"hook of ", bad, " failed">>]
    ELSE [called |-> Ids(hooked), err |-> "none", msg |-> <<>>]

postDeploy(cs, bad) ==
    LET got == getConstructs(cs)
    IN  IF got.err # "none" THEN [called |-> <<>>, err |-> got.err, msg |-> got.msg]
        ELSE callInOrder(SelectSeq(ObjectEntries(got.ent), hasPostDeploy), bad)

preRemove(cs, bad) ==
    LET got == getConstructs(cs)
    IN  IF got.err # "none" THEN [called |-> <<>>, err |-> got.err, msg |-> got.msg]
        ELSE callInOrder(SelectSeq(ObjectEntries(got.ent), hasPreRemove), bad)

\* registerCommands(): the "<id>:<command>" commands, or the error of the
\* first declaration whose type getConstructClass does not find
\* A registration that waits for the construct instances and so registers nothing
registerCommandsLater(ds) == [commands |-> <<>>, err |-> "none", msg |-> <<>>]

\* this.commands[`${id}:${command}`] and this.hooks[`${id}:${command}:${command}`]
registeredCommand(id, type, command) ==
    [id |-> id, command |-> command, name |-> <<id, ":", command>>,
     lifecycleEvents |-> <<command>>,
     usage |-> commandDefinition(type, command).usage,
     options |-> commandDefinition(type, command).options,
     hook |-> <<id, ":", command, ":", command>>]

RECURSIVE registerEach(_, _)
registerEach(rest, acc) ==
    IF rest = <<>> THEN [commands |-> acc, err |-> "none", msg |-> <<>>]
    ELSE LET class == getConstructClass(Head(rest).type)
             cmds == classCommands(Head(rest).type)
         IN IF class.err # "none"
            THEN [commands |-> acc, err |-> class.err, msg |-> class.msg]
            ELSE registerEach(Tail(rest),
                    acc \o [j \in 1..Len(cmds) |->
                                registeredCommand(Head(rest).id, Head(rest).type, cmds[j])])

registerCommands(ds) == registerEach(ObjectEntries(ds), <<>>)

\* stack.compile(): one resource per construct, one output per named output
compile(ents) ==
    [Resources |-> [i \in 1..Len(ents) |-> [key |-> ents[i].id, value |-> S(ents[i].type)]],
     Outputs |-> SelectSeq([i \in 1..Len(ents) |-> [key |-> ents[i].id, value |-> S("output")]],
                           LAMBDA e : \E c \in Range(ents) : c.id = e.key /\ Len(outputs(c)) > 0)]

\* Object.assign(target, source): source is a sequence of [key, value]
RECURSIVE ObjectAssign(_, _)
ObjectAssign(target, source) ==
    IF source = <<>> THEN target
    ELSE ObjectAssign(Set(target, Head(source).key, Head(source).value), Tail(source))

OrEmpty(o) == IF o = Undefined THEN Obj(<<>>, <<>>) ELSE o

\* A merge in which the value the deployment already holds wins
configureCloudFormationKeepingOld(resources, template) ==
    LET r0 == OrEmpty(resources)
        r1 == Set(r0, "Resources", OrEmpty(Get(r0, "Resources")))
        r2 == Set(r1, "Outputs", OrEmpty(Get(r1, "Outputs")))
        kept(target, source) == SelectSeq(source, LAMBDA e : e.key \notin Range(target.ks))
        r3 == Set(r2, "Resources",
                  ObjectAssign(Get(r2, "Resources"), kept(Get(r2, "Resources"), template.Resources)))
    IN  Set(r3, "Outputs",
            ObjectAssign(Get(r3, "Outputs"), kept(Get(r3, "Outputs"), template.Outputs)))

configureCloudFormation(resources, template) ==
    LET r0 == OrEmpty(resources)
        r1 == Set(r0, "Resources", OrEmpty(Get(r0, "Resources")))
        r2 == Set(r1, "Outputs", OrEmpty(Get(r1, "Outputs")))
        r3 == Set(r2, "Resources", ObjectAssign(Get(r2, "Resources"), template.Resources))
    IN  Set(r3, "Outputs", ObjectAssign(Get(r3, "Outputs"), template.Outputs))

\* providers[0].appendCloudformationResources()
appendCloudformationResources(st) ==
    [st EXCEPT !.service.resources =
        configureCloudFormation(@, compile(IF st.constructs.def THEN st.constructs.ent ELSE <<>>))]

-----------------------------------------------------------------------------
(* The plugin before the constructs: the before:package:initialize hook *)

\* new Config(stackName, region, custom.lift).getStack(): the components of the stack
getStack(lift) ==
    [i \in 1..Len(lift.ks) |-> [id |-> lift.ks[i], type |-> lift.vs[i].fr[1].s]]

\* stack.permissionsInStack()
permissionsInStack(stack) ==
    FlattenSeq([i \in 1..Len(stack) |->
                  IF hasPermissions(stack[i]) THEN permissions(stack[i]) ELSE <<>>])

\* configurePermissions(permissions)
configurePermissions(provider, perms) ==
    LET list == IF Get(provider, "iamRoleStatements") = Undefined
                THEN Arr(<<>>) ELSE Get(provider, "iamRoleStatements")
    IN Set(provider, "iamRoleStatements", Arr(list.xs \o perms))

\* A setup without the early return: a missing configuration counts as an empty one
setupAlways(sv) ==
    LET lift == IF sv.custom = Undefined \/ Get(sv.custom, "lift") = Undefined
                THEN Obj(<<>>, <<>>) ELSE Get(sv.custom, "lift")
        stack == getStack(lift)
    IN [sv EXCEPT !.resources = configureCloudFormation(@, compile(stack)),
                  !.provider = configurePermissions(@, permissionsInStack(stack))]

\* setup()
setup(sv) ==
    IF sv.custom = Undefined \/ Get(sv.custom, "lift") = Undefined
    THEN sv
    ELSE LET stack == getStack(Get(sv.custom, "lift"))
         IN [sv EXCEPT !.resources = configureCloudFormation(@, compile(stack)),
                       !.provider = configurePermissions(@, permissionsInStack(stack))]

-----------------------------------------------------------------------------
(* State machine *)

store == [constructs |-> constructs, service |-> service]

\* op: the operation, arg: its input, err and msg: the error it threw,
\* trace: the calls it made or lines it printed, value: what it returned
Result(op, arg, err, msg, trace, value) ==
    [op |-> op, arg |-> arg, err |-> err, msg |-> msg, trace |-> trace, value |-> value]

Init ==
    /\ plugin = "none"
    /\ decls \in DeclSets
    /\ constructs = [def |-> FALSE]
    /\ service = [provider |-> Obj(<<"name">>, <<S("aws")>>),
                  functions |-> Obj(<<"hello">>, <<Obj(<<"handler">>, <<S("index.handler")>>)>>),
                  custom |-> Undefined,
                  resources |-> Undefined,
                  layers |-> Undefined,
                  outputs |-> Obj(<<>>, <<>>)]
    /\ lazies = <<>>
    /\ commands = <<>>
    /\ host = "boot"
    /\ result = Result("none", <<>>, "none", <<>>, <<>>, Undefined)
    /\ schema = CONSTRUCTS_DEFINITION

\* new LiftPlugin(serverless, cliOptions): registerCommands() is its last statement
Constructor ==
    /\ plugin = "none"
    /\ LET r == registerCommands(decls)
       IN /\ plugin' = IF r.err = "none" THEN "ready" ELSE "failed"
          /\ commands' = r.commands
          /\ result' = Result("constructor", <<>>, r.err, r.msg, <<>>, Undefined)
    /\ schema' = registerConstructsSchema(schema)
    /\ UNCHANGED <<decls, constructs, service, lazies, host>>

\* A resolver that produces the value at once instead of deferring it
ResolveVariableEager(section, address) ==
    /\ plugin = "ready"
    /\ host = "boot"
    /\ LET r == produce(address, constructs)
           old == Get(service[section], "refs")
           refs == IF old = Undefined THEN <<>> ELSE old.xs
       IN /\ lazies' = Append(lazies, address)
          /\ service' = [service EXCEPT ![section] = Set(@, "refs", Arr(Append(refs, r.v)))]
          /\ result' = Result("resolveReference", address, r.err, r.msg, <<>>, r.v)
    /\ UNCHANGED <<plugin, decls, constructs, commands, host, schema>>

\* A resolver that hands out the token of an earlier call with the same address
ResolveVariableMemo(section, address) ==
    /\ plugin = "ready"
    /\ host = "boot"
    /\ LET n == IF address \in Range(lazies) THEN IndexOfKey(lazies, address) ELSE Len(lazies) + 1
           old == Get(service[section], "refs")
           refs == IF old = Undefined THEN <<>> ELSE old.xs
       IN /\ lazies' = IF address \in Range(lazies) THEN lazies ELSE Append(lazies, address)
          /\ service' = [service EXCEPT ![section] = Set(@, "refs", Arr(Append(refs, Str(<<Tok(n)>>))))]
          /\ result' = Result("resolveReference", address, "none", <<>>, <<>>, Str(<<Tok(n)>>))
    /\ UNCHANGED <<plugin, decls, constructs, commands, host, schema>>

\* resolveReference({address}): a new token standing for the Lazy; the host
\* writes the returned string where the ${construct:address} expression stood.
\* The host resolves the variables of the configuration before it fires initialize.
ResolveVariable(section, address) ==
    /\ plugin = "ready"
    /\ host = "boot"
    /\ LET n == Len(lazies) + 1
           value == Str(<<Tok(n)>>)
           old == Get(service[section], "refs")
           refs == IF old = Undefined THEN <<>> ELSE old.xs
       IN /\ lazies' = Append(lazies, address)
          /\ service' = [service EXCEPT ![section] = Set(@, "refs", Arr(Append(refs, value)))]
          /\ result' = Result("resolveReference", address, "none", <<>>, <<>>, Str(<<Tok(n)>>))
    /\ UNCHANGED <<plugin, decls, constructs, commands, host, schema>>

\* Forcing the deferred value behind token n on its own
Force(n) ==
    /\ plugin = "ready"
    /\ n \in 1..Len(lazies)
    /\ LET r == resolve(Str(<<Tok(n)>>), constructs, lazies)
       IN result' = Result("force", lazies[n], r.err, r.msg, <<>>, r.v)
    /\ UNCHANGED <<plugin, decls, constructs, service, lazies, commands, host, schema>>

Initialize ==
    /\ plugin = "ready"
    /\ LET r == initialize(store, lazies)
       IN /\ constructs' = r.st.constructs
          /\ service' = r.st.service
          /\ host' = IF r.err = "none" THEN "run" ELSE "aborted"
          /\ result' = Result("initialize", <<>>, r.err, r.msg, r.trace, Undefined)
    /\ UNCHANGED <<plugin, decls, lazies, commands, schema>>

LoadConstructs ==
    /\ plugin = "ready"
    /\ LET r == loadConstructs(store)
       IN /\ constructs' = r.st.constructs
          /\ result' = Result("loadConstructs", <<>>, r.err, r.msg, <<>>, Undefined)
    /\ UNCHANGED <<plugin, decls, service, lazies, commands, host, schema>>

AppendPermissions ==
    /\ plugin = "ready"
    /\ LET r == appendPermissions(store)
           list == Get(r.st.service.provider, "iamRoleStatements")
       IN /\ list # Undefined => Len(list.xs) <= MaxStatements
          /\ service' = r.st.service
          /\ result' = Result("appendPermissions", <<>>, r.err, r.msg, <<>>, Undefined)
    /\ UNCHANGED <<plugin, decls, constructs, lazies, commands, host, schema>>

ResolveLazyVariables ==
    /\ plugin = "ready"
    /\ LET r == resolveLazyVariables(store, lazies)
       IN /\ service' = r.st.service
          /\ result' = Result("resolveLazyVariables", <<>>, r.err, r.msg, <<>>, Undefined)
    /\ UNCHANGED <<plugin, decls, constructs, lazies, commands, host, schema>>

\* before:aws:info:displayStackOutputs
Info(missing) ==
    /\ plugin = "ready"
    /\ LET got == getConstructs(constructs)
           lines == IF got.err # "none" THEN <<>> ELSE infoLines(ObjectEntries(got.ent), missing)
       IN result' = Result("info", <<missing>>, got.err, got.msg, lines, Undefined)
    /\ UNCHANGED <<plugin, decls, constructs, service, lazies, commands, host, schema>>

\* after:deploy:deploy
PostDeploy(bad) ==
    /\ plugin = "ready"
    /\ LET r == postDeploy(constructs, bad)
       IN result' = Result("postDeploy", <<bad>>, r.err, r.msg, r.called, Undefined)
    /\ UNCHANGED <<plugin, decls, constructs, service, lazies, commands, host, schema>>

\* before:remove:remove
PreRemove(bad) ==
    /\ plugin = "ready"
    /\ LET r == preRemove(constructs, bad)
       IN result' = Result("preRemove", <<bad>>, r.err, r.msg, r.called, Undefined)
    /\ UNCHANGED <<plugin, decls, constructs, service, lazies, commands, host, schema>>

\* The hook "<id>:<command>:<command>" registered by registerCommands
CommandHook(i) ==
    /\ plugin = "ready"
    /\ i \in 1..Len(commands)
    /\ LET got == getConstructs(constructs)
       IN result' = Result("command", <<commands[i].id, commands[i].command>>, got.err, got.msg,
                           IF got.err # "none" THEN <<>> ELSE <<commands[i].id, commands[i].command>>,
                           Undefined)
    /\ UNCHANGED <<plugin, decls, constructs, service, lazies, commands, host, schema>>

\* after:package:compileEvents
AppendCloudformationResources ==
    /\ plugin = "ready"
    /\ service' = appendCloudformationResources(store).service
    /\ result' = Result("appendCloudformationResources", <<>>, "none", <<>>, <<>>, Undefined)
    /\ UNCHANGED <<plugin, decls, constructs, lazies, commands, host, schema>>

\* The construct whose output resolvers return undefined: one that has outputs, or none
InfoInputs == {d.id : d \in {e \in Range(decls) : outputs(e) # <<>>}} \cup {NoId}

\* The construct whose hook throws: one that defines the hook, or none
PostDeployInputs == {d.id : d \in {e \in Range(decls) : hasPostDeploy(e)}} \cup {NoId}
PreRemoveInputs == {d.id : d \in {e \in Range(decls) : hasPreRemove(e)}} \cup {NoId}

\* Every method may be invoked at any time
Next ==
    \/ Constructor
    \/ /\ Len(lazies) < MaxTokens
       /\ \E section \in EmbedSections, address \in Addresses : ResolveVariable(section, address)
    \/ \E n \in 1..MaxTokens : Force(n)
    \/ Initialize
    \/ LoadConstructs
    \/ AppendPermissions
    \/ ResolveLazyVariables
    \/ \E missing \in InfoInputs : Info(missing)
    \/ \E bad \in PostDeployInputs : PostDeploy(bad)
    \/ \E bad \in PreRemoveInputs : PreRemove(bad)
    \/ \E i \in 1..MaxDecls : CommandHook(i)

Spec == Init /\ [][Next]_vars

\* The host's run: plugin construction, variable resolution, the initialize
\* hook, then the lifecycle events of the command; a hook that throws ends
\* the run.
HostResolveVariable ==
    /\ Len(lazies) < MaxTokens
    /\ \E section \in EmbedSections, address \in Addresses : ResolveVariable(section, address)
HostInitialize == host \in {"boot", "run"} /\ Initialize
HostInfo == host = "run" /\ \E missing \in InfoInputs : Info(missing)
HostPostDeploy == host = "run" /\ \E bad \in PostDeployInputs : PostDeploy(bad)
HostPreRemove == host = "run" /\ \E bad \in PreRemoveInputs : PreRemove(bad)
HostCommandHook == host = "run" /\ \E i \in 1..MaxDecls : CommandHook(i)
HostCompileEvents == host = "run" /\ AppendCloudformationResources

HostNext ==
    \/ Constructor
    \/ HostResolveVariable
    \/ HostInitialize
    \/ HostInfo
    \/ HostPostDeploy
    \/ HostPreRemove
    \/ HostCommandHook
    \/ HostCompileEvents

SpecHost == Init /\ [][HostNext]_vars

\* The hooks and the variable resolver of one plugin instance, fired in any
\* order and any number of times
HooksResolveVariable ==
    /\ Len(lazies) < MaxTokens
    /\ \E section \in EmbedSections, address \in Addresses : ResolveVariable(section, address)
HooksInfo == \E missing \in InfoInputs : Info(missing)
HooksPostDeploy == \E bad \in PostDeployInputs : PostDeploy(bad)
HooksPreRemove == \E bad \in PreRemoveInputs : PreRemove(bad)
HooksCommandHook == \E i \in 1..MaxDecls : CommandHook(i)

HooksNext ==
    \/ Constructor
    \/ HooksResolveVariable
    \/ Initialize
    \/ HooksInfo
    \/ HooksPostDeploy
    \/ HooksPreRemove
    \/ HooksCommandHook
    \/ AppendCloudformationResources

SpecHooks == Init /\ [][HooksNext]_vars

\* The host resolving the variables of the configuration, one resolveReference
\* call per occurrence of a ${construct:...} expression, before or after the
\* constructs are loaded
CallsResolveVariable ==
    /\ Len(lazies) < MaxCalls
    /\ Get(service.outputs, "refs") # Undefined => Len(Get(service.outputs, "refs").xs) < MaxCalls
    /\ \E section \in EmbedSections, address \in Addresses : ResolveVariable(section, address)
CallsForce == \E n \in 1..MaxCalls : Force(n)

CallsNext ==
    \/ Constructor
    \/ CallsResolveVariable
    \/ CallsForce
    \/ LoadConstructs

SpecCalls == Init /\ [][CallsNext]_vars

\* new LiftPlugin(...) once more in the same process, for a configuration of
\* its own: the variables describe the newest instance, the schema is the
\* module's
NewPlugin ==
    /\ plugin # "none"
    /\ Len(schema) <= MaxPlugins
    /\ decls' \in DeclSets
    /\ LET r == registerCommands(decls')
       IN /\ plugin' = IF r.err = "none" THEN "ready" ELSE "failed"
          /\ commands' = r.commands
          /\ result' = Result("constructor", <<Len(schema)>>, r.err, r.msg, <<>>, Undefined)
    /\ schema' = registerConstructsSchema(schema)
    /\ constructs' = [def |-> FALSE]
    /\ lazies' = <<>>
    /\ UNCHANGED <<service, host>>

ProcessNext ==
    \/ Constructor
    \/ NewPlugin
    \/ LoadConstructs

SpecProcess == Init /\ [][ProcessNext]_vars

\* The configurations the operations that write the deployment configuration
\* are given: custom with or without a lift entry, resources with or without
\* its containers, a role statement list that exists or not
LiftConfigs ==
    {Obj(<<>>, <<>>),
     Obj(<<"assets">>, <<S("storage")>>),
     Obj(<<"assets">>, <<S("queue")>>),
     Obj(<<"assets", "7">>, <<S("storage"), S("storage")>>)}

Customs == {Undefined, Obj(<<"stage">>, <<S("dev")>>)} \cup {Obj(<<"lift">>, <<c>>) : c \in LiftConfigs}

ResourcesInputs ==
    {Undefined,
     Obj(<<>>, <<>>),
     Obj(<<"Resources">>, <<Obj(<<"assets", "table">>, <<S("mine"), S("kept")>>)>>),
     Obj(<<"Resources", "Outputs", "Conditions">>,
         <<Obj(<<"table">>, <<S("kept")>>),
           Obj(<<"assets", "url">>, <<S("mine"), S("kept")>>),
           Obj(<<>>, <<>>)>>)}

Providers ==
    {Obj(<<"name">>, <<S("aws")>>),
     Obj(<<"name", "iamRoleStatements">>,
         <<S("aws"), Arr(<<PolicyStatement(<<S("dynamodb:Query")>>, <<S("*")>>)>>)>>)}

InitConfiguration ==
    /\ plugin = "none"
    /\ decls \in DeclSets
    /\ constructs = [def |-> FALSE]
    /\ \E p \in Providers, c \in Customs, r \in ResourcesInputs :
          service = [provider |-> p,
                     functions |-> Obj(<<"hello">>, <<Obj(<<"handler">>, <<S("index.handler")>>)>>),
                     custom |-> c,
                     resources |-> r,
                     layers |-> Undefined,
                     outputs |-> Obj(<<>>, <<>>)]
    /\ lazies = <<>>
    /\ commands = <<>>
    /\ host = "boot"
    /\ result = Result("none", <<>>, "none", <<>>, <<>>, Undefined)
    /\ schema = CONSTRUCTS_DEFINITION

\* before:package:initialize
Setup ==
    /\ LET sv == setup(service)
           list == Get(sv.provider, "iamRoleStatements")
       IN /\ list # Undefined => Len(list.xs) <= MaxStatements
          /\ service' = sv
          /\ result' = Result("setup", <<>>, "none", <<>>, <<>>, Undefined)
    /\ UNCHANGED <<plugin, decls, constructs, lazies, commands, host, schema>>

ConfigurationNext ==
    \/ Setup
    \/ Constructor
    \/ LoadConstructs
    \/ AppendPermissions

SpecConfiguration == InitConfiguration /\ [][ConfigurationNext]_vars

-----------------------------------------------------------------------------
(* Properties *)

RECURSIVE NoDeferred(_)
\* x holds no token and no deferred value
NoDeferred(x) ==
    CASE x.t = "lazy" -> FALSE
      [] x.t = "str" -> \A i \in 1..Len(x.fr) : x.fr[i].k = "lit"
      [] x.t = "arr" -> \A i \in 1..Len(x.xs) : NoDeferred(x.xs[i])
      [] x.t = "obj" -> \A i \in 1..Len(x.vs) : NoDeferred(x.vs[i])
      [] OTHER -> TRUE

NoDeferredService(sv) == \A i \in 1..Len(SectionNames) : NoDeferred(sv[SectionNames[i]])

RECURSIVE Forced(_)
\* A value with the deferred values around it forced
Forced(v) == IF v.t = "lazy" THEN Forced(v.v) ELSE v

IsPrefix(s, t) == Len(s) <= Len(t) /\ SubSeq(t, 1, Len(s)) = s

StatementList(sv) ==
    LET list == Get(sv.provider, "iamRoleStatements")
    IN IF list = Undefined THEN <<>> ELSE list.xs

\* In the enumeration of an object's keys, the key of ds[i] comes before the
\* key of ds[j]: integer-like keys first, in ascending numeric order, then the
\* other keys in the order they were written.
ComesBefore(ds, i, j) ==
    \/ ArrayIndex(ds[i].id) >= 0 /\ ArrayIndex(ds[j].id) >= 0
         /\ ArrayIndex(ds[i].id) < ArrayIndex(ds[j].id)
    \/ ArrayIndex(ds[i].id) >= 0 /\ ArrayIndex(ds[j].id) < 0
    \/ ArrayIndex(ds[i].id) < 0 /\ ArrayIndex(ds[j].id) < 0 /\ i < j

EnumerationOrder(ds) ==
    LET s == CHOOSE f \in [1..Len(ds) -> 1..Len(ds)] :
                 \A a, b \in 1..Len(ds) : a < b => ComesBefore(ds, f[a], f[b])
    IN [k \in 1..Len(ds) |-> ds[s[k]]]

DeclarationOrder(ds) == ds

\* The statements of the constructs of order, construct by construct
StatementsOf(order) ==
    FlattenSeq([i \in 1..Len(order) |->
                  IF hasPermissions(order[i]) THEN permissions(order[i]) ELSE <<>>])

\* What a fail-fast sequential loop over hooked calls when bad throws
ExpectedCalls(hooked, bad) ==
    IF bad \in Range(hooked) THEN SubSeq(hooked, 1, IndexOfKey(hooked, bad)) ELSE hooked

DefinesHook(op, d) == IF op = "postDeploy" THEN hasPostDeploy(d) ELSE hasPreRemove(d)

Unregistered(ds) == {i \in 1..Len(ds) : ds[i].type \notin Range(getAllConstructClasses)}

\* C1: a first loadConstructs leaves exactly one instance per declaration,
\* keyed by the declaration id; any later invocation (directly, or by the
\* initialize hook fired again) fails with the 'already initialized' error and
\* leaves the mapping unchanged.
C1_LoadOnce ==
    [][result'.op \in {"loadConstructs", "initialize"} =>
        IF constructs.def
        THEN /\ result'.err = "DoubleInitialization"
             /\ result'.msg = AlreadyInitializedMsg
             /\ constructs' = constructs
        ELSE /\ constructs'.def
             /\ Len(constructs'.ent) = Len(decls)
             /\ \A i \in 1..Len(decls) : decls[i] \in Range(constructs'.ent)
             /\ result'.op = "loadConstructs" => result'.err = "none"]_vars

C1_Witness ==
    /\ result.op = "initialize"
    /\ result.err = "DoubleInitialization"
    /\ Len(constructs.ent) = 2

\* C2: while loadConstructs has not been invoked, info, postDeploy, preRemove,
\* appendPermissions, a registered command hook and forcing a deferred
\* reference all fail with the 'not initialized' error and do nothing else.
C2_NotInitialized ==
    [][(~constructs.def
          /\ result'.op \in {"info", "postDeploy", "preRemove", "appendPermissions",
                             "command", "force"}) =>
        /\ result'.err = "NotInitialized"
        /\ result'.msg = NotInitializedMsg
        /\ result'.trace = <<>>
        /\ result'.value = Undefined
        /\ service' = service
        /\ constructs' = constructs]_vars

C2_Witness ==
    /\ ~constructs.def
    /\ result.op = "command"
    /\ result.err = "NotInitialized"

C4_ForcedValue ==
    (/\ result.op = "force"
     /\ constructs.def
     /\ Len(result.arg) = 2
     /\ \E i \in 1..Len(decls) :
           decls[i].id = result.arg[1] /\ result.arg[2] \in Range(references(decls[i]).ks)) =>
        LET A == CHOOSE d \in Range(decls) : d.id = result.arg[1]
        IN /\ result.err = "none"
           /\ result.value = Forced(Get(references(A), result.arg[2]))
           /\ NoDeferred(result.value)

C4_Witness ==
    /\ result.op = "force"
    /\ result.err = "none"
    /\ result.arg = <<"assets", "queueArn">>

\* C5: after a successful initialize no token and no deferred value is left in
\* provider, functions, custom, resources, layers and outputs, the permission
\* statements appended by that initialize included.
C5_NoTokenLeft ==
    (result.op = "initialize" /\ result.err = "none") => NoDeferredService(service)

C5_Witness ==
    /\ result.op = "initialize"
    /\ result.err = "none"
    /\ Len(lazies) = 1
    /\ \E d \in Range(decls) : d.type = "queue"

\* C6: forcing a reference whose id names no construct, or whose property (the
\* text after the first ".") is no key of references(), fails with a message
\* that contains the id and, for an unknown property, every valid property name.
C6_InvalidReferenceFails ==
    (result.op = "force" /\ constructs.def) =>
        LET id == Head(result.arg)
            property == Tail(result.arg)
            known == \E c \in Range(constructs.ent) : c.id = id
            keys == IF known
                    THEN references(CHOOSE c \in Range(constructs.ent) : c.id = id).ks
                    ELSE <<>>
            valid == known /\ Len(property) = 1 /\ property[1] \in Range(keys)
        IN ~valid =>
              /\ result.err # "none"
              /\ id \in Range(result.msg)
              /\ Range(keys) \subseteq Range(result.msg)

\* C7 (as amended): a successful appendPermissions leaves the role statement
\* list as the list before followed by every construct's statements, the
\* constructs taken in the enumeration order of their ids (integer-like ids
\* first, ascending, then the others in declaration order), each construct's
\* statements in its own order; with no statement to add nothing changes.
C7_AppendInEnumerationOrder ==
    [][(result'.op = "appendPermissions" /\ result'.err = "none") =>
        LET added == StatementsOf(EnumerationOrder(decls))
        IN IF added = <<>> THEN service' = service
           ELSE service' = [service EXCEPT !.provider =
                              Set(@, "iamRoleStatements", Arr(StatementList(service) \o added))]]_vars

C7_Witness ==
    /\ result.op = "appendPermissions"
    /\ result.err = "none"
    /\ Len(decls) = 2
    /\ decls[1].id = "assets" /\ decls[2].id = "7"
    /\ Len(StatementList(service)) = 2

\* C7 (as claimed): the statements are added in declaration order of the
\* construct ids, all-digit ids included.
C7_AppendInDeclarationOrder ==
    [][(result'.op = "appendPermissions" /\ result'.err = "none") =>
        LET added == StatementsOf(DeclarationOrder(decls))
        IN IF added = <<>> THEN service' = service
           ELSE service' = [service EXCEPT !.provider =
                              Set(@, "iamRoleStatements", Arr(StatementList(service) \o added))]]_vars

\* C8 (as amended): a declaration set with an unregistered type makes the
\* plugin's construction fail, in registerCommands, with an error naming that
\* exact type; loadConstructs is never reached.
C8_UnknownTypeAtConstruction ==
    (plugin # "none" /\ Unregistered(decls) # {}) =>
        /\ plugin = "failed"
        /\ result.op = "constructor"
        /\ result.err = "UnknownConstructType"
        /\ \E i \in Unregistered(decls) : decls[i].type \in Range(result.msg)
        /\ ~constructs.def

C8_Witness ==
    /\ plugin = "failed"
    /\ Len(decls) = 2
    /\ "bogus" \in Range(result.msg)

\* C8 (as claimed): the unknown type is reported by the instantiation step.
C8_UnknownTypeAtInstantiation ==
    result.err = "UnknownConstructType" => result.op \in {"loadConstructs", "initialize"}

\* C9: resolveLazyVariables on sections that hold no token and no deferred
\* value succeeds and leaves every section as it was, undefined ones included.
C9_ResolveIdempotent ==
    [][(result'.op = "resolveLazyVariables" /\ NoDeferredService(service)) =>
        (result'.err = "none" /\ service' = service)]_vars

C9_Witness ==
    /\ result.op = "resolveLazyVariables"
    /\ result.err = "none"
    /\ host = "run"
    /\ Len(lazies) = 1
    /\ NoDeferredService(service)

\* C10 (as amended): postDeploy and preRemove call the hook of every construct
\* that defines it once, one after the other in the enumeration order of the
\* ids (integer-like ids first, ascending, then the others in declaration
\* order); the first hook that throws ends the loop and its error propagates.
C10_HooksInEnumerationOrder ==
    (result.op \in {"postDeploy", "preRemove"} /\ constructs.def) =>
        LET hooked == Ids(SelectSeq(EnumerationOrder(decls),
                                    LAMBDA d : DefinesHook(result.op, d)))
        IN /\ result.trace = ExpectedCalls(hooked, result.arg[1])
           /\ result.err = IF result.arg[1] \in Range(hooked) THEN "HookFailure" ELSE "none"

C10_Witness ==
    /\ result.op = "postDeploy"
    /\ result.err = "HookFailure"
    /\ Len(decls) = 2
    /\ decls[1].id = "10" /\ decls[2].id = "7"
    /\ \A d \in Range(decls) : hasPostDeploy(d)
    /\ result.trace = <<"7">>

\* C10 (as claimed): the hooks are called in declaration order.
C10_HooksInDeclarationOrder ==
    (result.op \in {"postDeploy", "preRemove"} /\ constructs.def) =>
        LET hooked == Ids(SelectSeq(DeclarationOrder(decls),
                                    LAMBDA d : DefinesHook(result.op, d)))
        IN /\ result.trace = ExpectedCalls(hooked, result.arg[1])
           /\ result.err = IF result.arg[1] \in Range(hooked) THEN "HookFailure" ELSE "none"

-----------------------------------------------------------------------------
(* Early resolution *)

\* The strings the resolveReference calls returned, in call order, as the
\* host wrote them into the configuration
Returned(sv) ==
    IF Get(sv.outputs, "refs") = Undefined THEN <<>> ELSE Get(sv.outputs, "refs").xs

ReferenceErrors == {"UnknownConstructReference", "UnknownReferenceProperty"}

\* C11: every resolveReference call returns a new token without failing and
\* leaves the constructs as they were, whether or not the constructs are
\* loaded, the id names a construct and the property exists; the errors about
\* the reference are thrown only by the operations that force the token.
C11_EarlyResolutionNeverFails ==
    [][/\ result'.op = "resolveReference" =>
            /\ result'.err = "none"
            /\ result'.value = Str(<<Tok(Len(lazies'))>>)
            /\ lazies' = Append(lazies, result'.arg)
            /\ constructs' = constructs
       /\ result'.err \in ReferenceErrors =>
            result'.op \in {"force", "resolveLazyVariables", "initialize"}]_vars

\* A token was returned for a reference to an undeclared construct before
\* the constructs were loaded
C11_Witness ==
    /\ result.op = "resolveReference"
    /\ result.err = "none"
    /\ ~constructs.def
    /\ result.arg[1] \notin Range(Ids(decls))
    /\ result.value = Str(<<Tok(1)>>)

\* C12 (as the code has it): every resolveReference call returns a token of
\* its own, different from the token of every other call, whether the
\* addresses are equal or not.
C12_OneTokenPerCall ==
    \A i, j \in 1..Len(Returned(service)) :
        i # j => Returned(service)[i] # Returned(service)[j]

\* Two calls with the same address were made
C12_Witness ==
    /\ Len(Returned(service)) = 2
    /\ Len(lazies) = 2
    /\ lazies[1] = lazies[2]
    /\ result.op = "resolveReference"

\* C12 (as stated): two calls return the same token exactly when their
\* addresses are equal.
C12_OneTokenPerAddress ==
    \A i, j \in 1..Len(Returned(service)) :
        (Returned(service)[i] = Returned(service)[j])
            <=> (lazies[Returned(service)[i].fr[1].n] = lazies[Returned(service)[j].fr[1].n])

-----------------------------------------------------------------------------
(* Command registration *)

\* The commands the declarations call for: one per declaration and command
\* of its class, named "<id>:<command>", with the command as its lifecycle
\* event and the usage and options of the class's definition
DeclaredCommands(ds) ==
    UNION {{[id |-> d.id, command |-> c, name |-> <<d.id, ":", c>>,
             lifecycleEvents |-> <<c>>,
             usage |-> commandDefinition(d.type, c).usage,
             options |-> commandDefinition(d.type, c).options,
             hook |-> <<d.id, ":", c, ":", c>>] : c \in Range(classCommands(d.type))} :
           d \in Range(ds)}

\* C13 (as the code has it): the commands are registered by the plugin's
\* constructor, from the declarations and their classes: once the plugin is
\* constructed, and whether or not the constructs are instantiated, exactly
\* one command "<id>:<command>" with its lifecycle event, usage, options and
\* hook is registered per declaration and command of its class; nothing is
\* registered before construction and instantiation registers nothing.
C13_RegisteredAtConstruction ==
    /\ plugin = "none" => commands = <<>>
    /\ plugin = "ready" =>
        /\ Range(commands) = DeclaredCommands(decls)
        /\ Len(commands) = Cardinality(DeclaredCommands(decls))

\* Commands are registered while no construct is instantiated
C13_Witness ==
    /\ result.op = "constructor"
    /\ plugin = "ready"
    /\ ~constructs.def
    /\ Len(commands) = 2

\* C13 (as stated): no command is registered before the constructs exist.
C13_RegisteredAfterInstantiation ==
    commands # <<>> => constructs.def

-----------------------------------------------------------------------------
(* Info *)

\* What info prints for one construct: its header and its defined outputs,
\* nothing for a construct without outputs
PrintedFor(d, missing) ==
    IF outputs(d) = <<>> THEN <<>>
    ELSE <<<<d.id>>>> \o (IF d.id = missing THEN <<>>
                         ELSE [j \in 1..Len(outputs(d)) |-> <<d.id, outputs(d)[j]>>])

RECURSIVE PrintedLines(_, _)
PrintedLines(order, missing) ==
    IF order = <<>> THEN <<>>
    ELSE PrintedFor(Head(order), missing) \o PrintedLines(Tail(order), missing)

\* C14 (as the code has it): info prints, construct by construct in the
\* enumeration order of the ids (integer-like ids first, ascending, then the
\* others in declaration order), every output whose resolver returns a
\* defined value; an undefined output is left out, without an error and
\* without ending the loop; info changes neither the constructs nor the
\* configuration.
C14_InfoInEnumerationOrder ==
    [][result'.op = "info" =>
         /\ constructs' = constructs
         /\ service' = service
         /\ constructs.def =>
              /\ result'.err = "none"
              /\ result'.trace = PrintedLines(EnumerationOrder(decls), result'.arg[1])]_vars

\* The outputs of the first construct are undefined, those of the next one are printed
C14_Witness ==
    /\ result.op = "info"
    /\ result.err = "none"
    /\ Len(decls) = 2
    /\ decls[1].id = "assets" /\ decls[2].id = "7"
    /\ result.arg[1] = "7"
    /\ result.trace = <<<<"7">>, <<"assets">>, <<"assets", outputs(decls[1])[1]>>>>

\* C14 (as stated): the outputs are printed in declaration order.
C14_InfoInDeclarationOrder ==
    (result.op = "info" /\ constructs.def) =>
        result.trace = PrintedLines(DeclarationOrder(decls), result.arg[1])

-----------------------------------------------------------------------------
(* Storage *)

S3Actions == <<S("s3:PutObject"), S("s3:GetObject"), S("s3:DeleteObject"), S("s3:ListBucket")>>

\* C15: a storage construct has one permission statement; its actions are
\* s3:PutObject, s3:GetObject, s3:DeleteObject, s3:ListBucket and its
\* resources are the bucket ARN that references() gives as bucketArn, then
\* that ARN joined with "*" by "/"; appendPermissions adds this statement.
C15_StoragePermissions ==
    \A i \in 1..Len(decls) :
        (plugin = "ready" /\ decls[i].type = "storage") =>
            LET ps == permissions(decls[i])
                arn == Get(references(decls[i]), "bucketArn")
            IN /\ hasPermissions(decls[i])
               /\ Len(ps) = 1
               /\ Get(ps[1], "Action") = Arr(S3Actions)
               /\ Get(ps[1], "Resource") =
                      Arr(<<arn, Obj(<<"Fn::Join">>, <<Arr(<<S("/"), Arr(<<arn, S("*")>>)>>)>>)>>)
               /\ arn # Undefined
               /\ (result.op = "appendPermissions" /\ result.err = "none") =>
                      ps[1] \in Range(StatementList(service))

\* appendPermissions has added the statement of a storage construct
C15_Witness ==
    /\ result.op = "appendPermissions"
    /\ result.err = "none"
    /\ \E i \in 1..Len(decls) :
          /\ decls[i].type = "storage"
          /\ \E st \in Range(StatementList(service)) :
                /\ Get(st, "Action") = Arr(S3Actions)
                /\ Get(st, "Resource").xs[1] = Get(references(decls[i]), "bucketArn")

-----------------------------------------------------------------------------
(* Writing the deployment configuration *)

\* The keys and values a container of resources holds, none when it is absent
Container(resources, name) ==
    IF resources = Undefined \/ Get(resources, name) = Undefined
    THEN Obj(<<>>, <<>>) ELSE Get(resources, name)

HasLift(sv) == sv.custom # Undefined /\ Get(sv.custom, "lift") # Undefined

\* after is before merged with the fragment: the keys of both, the
\* fragment's value on its keys, the previous value on the others
Merged(before, fragment, after) ==
    /\ after.t = "obj"
    /\ Range(after.ks) = Range(before.ks) \cup {e.key : e \in Range(fragment)}
    /\ Len(after.ks) = Cardinality(Range(after.ks))
    /\ \A e \in Range(fragment) : Get(after, e.key) = e.value
    /\ \A k \in Range(before.ks) :
          k \notin {e.key : e \in Range(fragment)} => Get(after, k) = Get(before, k)

\* C16: the merge of setup leaves in Resources and in Outputs the keys they
\* held and the keys of the compiled fragment, with the fragment's value on
\* the fragment's keys and the previous value on the others; containers
\* that were absent are created, and start empty.
C16_TemplateMerge ==
    [][(result'.op = "setup" /\ HasLift(service)) =>
         LET template == compile(getStack(Get(service.custom, "lift")))
         IN /\ service'.resources # Undefined
            /\ Merged(Container(service.resources, "Resources"), template.Resources,
                      Get(service'.resources, "Resources"))
            /\ Merged(Container(service.resources, "Outputs"), template.Outputs,
                      Get(service'.resources, "Outputs"))]_vars

\* A merge that has overwritten a resource, kept another and created Outputs
C16_Witness ==
    /\ result.op = "setup"
    /\ HasLift(service)
    /\ Get(Container(service.resources, "Resources"), "assets") = S("storage")
    /\ Get(Container(service.resources, "Resources"), "table") = S("kept")
    /\ Get(service.resources, "Outputs") # Undefined
    /\ Get(Container(service.resources, "Outputs"), "url") = Undefined

\* C19: setup without a custom section or without custom.lift, and
\* appendPermissions of constructs without statements, leave the deployment
\* configuration as it was: no container and no role statement list is
\* created or changed.
C19_NothingToContribute ==
    [][/\ (result'.op = "setup" /\ ~HasLift(service)) => service' = service
       /\ (result'.op = "appendPermissions" /\ result'.err = "none"
             /\ StatementsOf(EnumerationOrder(decls)) = <<>>) => service' = service]_vars

\* setup has run on a configuration with a custom section without a lift
\* entry, in which resources and the role statement list are still absent
C19_Witness ==
    /\ result.op = "setup"
    /\ service.custom # Undefined
    /\ ~HasLift(service)
    /\ service.resources = Undefined
    /\ Get(service.provider, "iamRoleStatements") = Undefined

-----------------------------------------------------------------------------
(* Schema assembly *)

\* C17 (as stated): whenever a plugin has been constructed, the schema of a
\* construct id is the base fragment and one oneOf fragment with one
\* alternative per registered class, its type pinned to the class's type;
\* so it is after a second plugin was constructed in the same process.
C17_OneUnionFragment ==
    plugin # "none" =>
        /\ Len(schema) = 2
        /\ schema[1] = CONSTRUCTS_DEFINITION[1]
        /\ Len(schema[2].oneOf) = Len(getAllConstructClasses)
        /\ \A i \in 1..Len(getAllConstructClasses) :
              schema[2].oneOf[i].properties.type.const = getAllConstructClasses[i]

-----------------------------------------------------------------------------
(* Repeated initialize *)

\* The statements of the role statement list that are on the construct id,
\* resolved or not
StatementsOn(sv, id) ==
    {i \in 1..Len(StatementList(sv)) :
        Forced(Get(StatementList(sv)[i], "Resource").xs[1]) = getCloudFormationReference(id, "Arn")}

\* C18: whatever hooks are fired, and however often, the role statement list
\* holds the statements of a construct at most once; an initialize fired
\* when the constructs are loaded fails in loadConstructs and changes
\* nothing.
C18_PermissionsAtMostOnce ==
    [][/\ \A i \in 1..Len(decls) :
            Cardinality(StatementsOn(service', decls[i].id)) <=
                (IF hasPermissions(decls[i]) THEN Len(permissions(decls[i])) ELSE 0)
       /\ (result'.op = "initialize" /\ constructs.def) =>
            /\ result'.err = "DoubleInitialization"
            /\ result'.trace = <<"loadConstructs">>
            /\ service' = service
            /\ constructs' = constructs]_vars

\* A second initialize has failed and the statement of the construct is there once
C18_Witness ==
    /\ result.op = "initialize"
    /\ result.err = "DoubleInitialization"
    /\ Len(decls) >= 1
    /\ hasPermissions(decls[1])
    /\ Cardinality(StatementsOn(service, decls[1].id)) = 1

====
